---- MODULE Spec2Model ----
(***************************************************************************)
(* Model of package pathfmt (nstogner/pathfmt).                            *)
(*                                                                         *)
(* Two variants of the package are modelled side by side:                  *)
(*   - the strict variant of format.go  (Format{str, parts}; ToMap returns *)
(*     an error on a static mismatch; FromStruct exists), and              *)
(*   - the lenient variant of unnamed/part_000 (Format{namedParts}; ToMap  *)
(*     never fails).  Its definitions carry the suffix L.                  *)
(*                                                                         *)
(* A Go string is a sequence of one-character strings, so that split,      *)
(* HasPrefix, TrimPrefix, Join, the strconv parsers and fmt's %v are       *)
(* computed character by character.  The empty string is << >>.            *)
(***************************************************************************)
EXTENDS Integers, Sequences, FiniteSets, TLC

VARIABLES pc, tmpl, f, fl, path, res, resL, x0, sres, sresL, src, rres

vars == <<pc, tmpl, f, fl, path, res, resL, x0, sres, sresL, src, rres>>

(***************************************************************************)
(* Bounds of the explored inputs.                                          *)
(***************************************************************************)
MaxTmplLen == 4
MaxTmplSegs == 3
MaxPathSegs == 3
MaxFields == 3
MaxBindSegs == 2
MaxRenderSegs == 3
MaxSrcFields == 2

(***************************************************************************)
(* package strings                                                         *)
(***************************************************************************)
HasPrefix(s, c) == Len(s) > 0 /\ s[1] = c

HasSuffix(s, c) == Len(s) > 0 /\ s[Len(s)] = c

TrimPrefix(s, c) == IF HasPrefix(s, c) THEN SubSeq(s, 2, Len(s)) ELSE s

TrimSuffix(s, c) == IF HasSuffix(s, c) THEN SubSeq(s, 1, Len(s) - 1) ELSE s

\* strings.Split(s, c) for a one-character separator: never empty, the
\* empty string splits into one empty token.
RECURSIVE Split(_, _)
Split(s, c) ==
    IF \E i \in 1..Len(s) : s[i] = c
    THEN LET i == CHOOSE k \in 1..Len(s) :
                      s[k] = c /\ \A j \in 1..(k - 1) : s[j] # c
         IN  <<SubSeq(s, 1, i - 1)>> \o Split(SubSeq(s, i + 1, Len(s)), c)
    ELSE <<s>>

\* strings.Join(a, c)
RECURSIVE Join(_, _)
Join(a, c) ==
    IF Len(a) = 0 THEN << >>
    ELSE IF Len(a) = 1 THEN a[1]
    ELSE a[1] \o <<c>> \o Join(Tail(a), c)

(***************************************************************************)
(* format.go                                                               *)
(***************************************************************************)
split(s) == Split(TrimPrefix(s, "/"), "/")

\* the loop body of New: one part per token
partOf(s) ==
    IF HasPrefix(s, "{") /\ HasSuffix(s, "}")
    THEN [static |-> << >>, variable |-> TrimSuffix(TrimPrefix(s, "{"), "}")]
    ELSE [static |-> s, variable |-> << >>]

New(p) ==
    LET splt == split(p)
    IN  [str |-> p, parts |-> [i \in 1..Len(splt) |-> partOf(splt[i])]]

\* how ToMap and FromStruct tell a variable part from a static one
IsVariable(p) == p.variable # << >>

IsStatic(p) == ~IsVariable(p)

\* a map write that does not overwrite an existing key
MapSetKeepFirst(m, k, v) ==
    [n \in DOMAIN m \cup {k} |-> IF n \in DOMAIN m THEN m[n] ELSE v]

\* m[k] = v on a Go map
MapSet(m, k, v) == [n \in DOMAIN m \cup {k} |-> IF n = k THEN v ELSE m[n]]

EmptyMap == [n \in {} |-> << >>]

\* a ToMap that also rejects a path with fewer tokens than the template
RECURSIVE ToMapFromShortErr(_, _, _, _)
ToMapFromShortErr(fm, splt, i, m) ==
    IF i > Len(fm.parts)
    THEN [m |-> m, isNil |-> FALSE, err |-> FALSE, want |-> << >>, got |-> << >>]
    ELSE IF i > Len(splt)
    THEN [m |-> EmptyMap, isNil |-> TRUE, err |-> TRUE,
          want |-> fm.parts[i].static, got |-> << >>]
    ELSE IF fm.parts[i].variable # << >>
    THEN ToMapFromShortErr(fm, splt, i + 1, MapSet(m, fm.parts[i].variable, splt[i]))
    ELSE IF fm.parts[i].static # splt[i]
    THEN [m |-> EmptyMap, isNil |-> TRUE, err |-> TRUE,
          want |-> fm.parts[i].static, got |-> splt[i]]
    ELSE ToMapFromShortErr(fm, splt, i + 1, m)

\* the loop of ToMap from token index i (1-based) with the map built so far
RECURSIVE ToMapFrom(_, _, _, _)
ToMapFrom(fm, splt, i, m) ==
    IF i > Len(splt) \/ i > Len(fm.parts)
    THEN [m |-> m, isNil |-> FALSE, err |-> FALSE, want |-> << >>, got |-> << >>]
    ELSE IF fm.parts[i].variable # << >>
    THEN ToMapFrom(fm, splt, i + 1, MapSet(m, fm.parts[i].variable, splt[i]))
    ELSE IF fm.parts[i].static # splt[i]
    THEN [m |-> EmptyMap, isNil |-> TRUE, err |-> TRUE,
          want |-> fm.parts[i].static, got |-> splt[i]]
    ELSE ToMapFrom(fm, splt, i + 1, m)

ToMap(fm, p) == ToMapFrom(fm, split(p), 1, EmptyMap)

(***************************************************************************)
(* unnamed/part_000 (lenient variant)                                      *)
(***************************************************************************)
\* the loop of New: the named parts of tokens i.., index is 0-based as in Go
RECURSIVE namedPartsFrom(_, _)
namedPartsFrom(parts, i) ==
    IF i > Len(parts) THEN << >>
    ELSE IF HasPrefix(parts[i], "{") /\ HasSuffix(parts[i], "}")
    THEN <<[name |-> TrimSuffix(TrimPrefix(parts[i], "{"), "}"), index |-> i - 1]>>
         \o namedPartsFrom(parts, i + 1)
    ELSE namedPartsFrom(parts, i + 1)

NewL(p) == [namedParts |-> namedPartsFrom(split(p), 1)]

RECURSIVE ToMapLFrom(_, _, _, _)
ToMapLFrom(fm, parts, k, m) ==
    IF k > Len(fm.namedParts) THEN m
    ELSE LET np == fm.namedParts[k]
         IN  IF np.index < Len(parts)
             THEN ToMapLFrom(fm, parts, k + 1, MapSet(m, np.name, parts[np.index + 1]))
             ELSE ToMapLFrom(fm, parts, k + 1, m)

ToMapL(fm, p) == ToMapLFrom(fm, split(p), 1, EmptyMap)

(***************************************************************************)
(* package strconv and fmt, on the characters the explored values use:     *)
(* digits, a sign and letters.  Underscores, the 0x/0b/0o prefixes,        *)
(* exponents and fractions occur in no explored token and are rejected.    *)
(***************************************************************************)
Digits == {"0", "1", "2", "3", "4", "5", "6", "7", "8", "9"}

DigitVal(c) ==
    CASE c = "0" -> 0 [] c = "1" -> 1 [] c = "2" -> 2 [] c = "3" -> 3
      [] c = "4" -> 4 [] c = "5" -> 5 [] c = "6" -> 6 [] c = "7" -> 7
      [] c = "8" -> 8 [] c = "9" -> 9

DigitChar(d) == <<"0", "1", "2", "3", "4", "5", "6", "7", "8", "9">>[d + 1]

RECURSIVE NumVal(_, _)
NumVal(s, base) ==
    IF Len(s) = 0 THEN 0
    ELSE NumVal(SubSeq(s, 1, Len(s) - 1), base) * base + DigitVal(s[Len(s)])

\* the bit sizes the model can overflow; wider ones never overflow on the
\* explored tokens
FitsUnsigned(n, bits) == bits >= 31 \/ n < 2 ^ bits

FitsSigned(n, bits) == bits >= 32 \/ (n >= -(2 ^ (bits - 1)) /\ n < 2 ^ (bits - 1))

\* strconv.ParseUint(s, 0, bits)
ParseUint(s, bits) ==
    IF Len(s) = 0 \/ \E i \in 1..Len(s) : s[i] \notin Digits
    THEN [err |-> TRUE, val |-> 0]
    ELSE LET base == IF Len(s) > 1 /\ s[1] = "0" THEN 8 ELSE 10
         IN  IF \E i \in 1..Len(s) : DigitVal(s[i]) >= base
             THEN [err |-> TRUE, val |-> 0]
             ELSE IF ~FitsUnsigned(NumVal(s, base), bits)
             THEN [err |-> TRUE, val |-> 0]
             ELSE [err |-> FALSE, val |-> NumVal(s, base)]

\* strconv.ParseInt(s, 0, bits)
ParseInt(s, bits) ==
    IF Len(s) = 0 THEN [err |-> TRUE, val |-> 0]
    ELSE LET neg == s[1] = "-"
             rest == IF s[1] \in {"+", "-"} THEN Tail(s) ELSE s
             u == ParseUint(rest, 64)
             n == IF neg THEN 0 - u.val ELSE u.val
         IN  IF u.err \/ ~FitsSigned(n, bits)
             THEN [err |-> TRUE, val |-> 0]
             ELSE [err |-> FALSE, val |-> n]

\* strconv.ParseFloat(s, bits), for integral decimal literals
ParseFloat(s, bits) ==
    IF Len(s) = 0 THEN [err |-> TRUE, val |-> 0]
    ELSE LET neg == s[1] = "-"
             rest == IF s[1] \in {"+", "-"} THEN Tail(s) ELSE s
         IN  IF Len(rest) = 0 \/ \E i \in 1..Len(rest) : rest[i] \notin Digits
             THEN [err |-> TRUE, val |-> 0]
             ELSE [err |-> FALSE,
                   val |-> IF neg THEN 0 - NumVal(rest, 10) ELSE NumVal(rest, 10)]

\* strconv.ParseBool(s)
ParseBool(s) ==
    IF s \in {<<"1">>, <<"t">>, <<"T">>, <<"T", "R", "U", "E">>,
              <<"t", "r", "u", "e">>, <<"T", "r", "u", "e">>}
    THEN [err |-> FALSE, val |-> TRUE]
    ELSE IF s \in {<<"0">>, <<"f">>, <<"F">>, <<"F", "A", "L", "S", "E">>,
                   <<"f", "a", "l", "s", "e">>, <<"F", "a", "l", "s", "e">>}
    THEN [err |-> FALSE, val |-> FALSE]
    ELSE [err |-> TRUE, val |-> FALSE]

\* reflect.Type.Bits() of the numeric kinds
Bits(kind) ==
    CASE kind = "int8" -> 8
      [] kind = "uint8" -> 8
      [] kind = "int16" -> 16
      [] kind = "int32" -> 32
      [] kind = "float32" -> 32
      [] OTHER -> 64

(***************************************************************************)
(* ToStruct.  A target is [isPtr, isStruct, fields]; a field is            *)
(* [tag, kind, canSet, val], tag << >> when the field has no path tag.     *)
(***************************************************************************)
\* a field value: the slot its kind uses holds it, the others are zero
StrV(v) == [s |-> v, n |-> 0, b |-> FALSE]
NumV(v) == [s |-> << >>, n |-> v, b |-> FALSE]
BoolV(v) == [s |-> << >>, n |-> 0, b |-> v]

\* the switch on ef.Kind(): the parsed value, whether a Set call is made,
\* and whether the parser failed
Coerce(kind, v) ==
    CASE kind = "bool" ->
           [err |-> ParseBool(v).err, set |-> TRUE, val |-> BoolV(ParseBool(v).val)]
      [] kind \in {"float32", "float64"} ->
           [err |-> ParseFloat(v, Bits(kind)).err, set |-> TRUE,
            val |-> NumV(ParseFloat(v, Bits(kind)).val)]
      [] kind \in {"int", "int8", "int16", "int32", "int64"} ->
           [err |-> ParseInt(v, Bits(kind)).err, set |-> TRUE,
            val |-> NumV(ParseInt(v, Bits(kind)).val)]
      [] kind = "string" ->
           [err |-> FALSE, set |-> TRUE, val |-> StrV(v)]
      [] kind \in {"uint", "uint8", "uint16", "uint32", "uint64", "uintptr"} ->
           [err |-> ParseUint(v, Bits(kind)).err, set |-> TRUE,
            val |-> NumV(ParseUint(v, Bits(kind)).val)]
      [] OTHER ->
           [err |-> FALSE, set |-> FALSE, val |-> NumV(0)]

\* a field loop that resets a tagged field to its zero value when the map
\* has no entry for the tag
RECURSIVE bindFieldsZeroMissing(_, _, _, _)
bindFieldsZeroMissing(m, fields, i, assigned) ==
    IF i > Len(fields)
    THEN [fields |-> fields, err |-> "none", failAt |-> 0, assigned |-> assigned]
    ELSE LET fd == fields[i]
         IN  IF ~fd.canSet
             THEN IF fd.tag # << >>
                  THEN [fields |-> fields, err |-> "private", failAt |-> i,
                        assigned |-> assigned]
                  ELSE bindFieldsZeroMissing(m, fields, i + 1, assigned)
             ELSE IF fd.tag \notin DOMAIN m
             THEN bindFieldsZeroMissing(m, [fields EXCEPT ![i].val = StrV(<< >>)], i + 1,
                                        assigned \cup {i})
             ELSE LET c == Coerce(fd.kind, m[fd.tag])
                  IN  IF c.err
                      THEN [fields |-> fields, err |-> "coerce", failAt |-> i,
                            assigned |-> assigned]
                      ELSE IF c.set
                      THEN bindFieldsZeroMissing(m, [fields EXCEPT ![i].val = c.val], i + 1,
                                                 assigned \cup {i})
                      ELSE bindFieldsZeroMissing(m, fields, i + 1, assigned)

\* a field loop that remembers the first coercion failure but goes on to
\* the remaining fields
RECURSIVE bindFieldsNoStop(_, _, _, _)
bindFieldsNoStop(m, fields, i, assigned) ==
    IF i > Len(fields)
    THEN [fields |-> fields, err |-> "none", failAt |-> 0, assigned |-> assigned]
    ELSE LET fd == fields[i]
         IN  IF ~fd.canSet
             THEN IF fd.tag # << >>
                  THEN [fields |-> fields, err |-> "private", failAt |-> i,
                        assigned |-> assigned]
                  ELSE bindFieldsNoStop(m, fields, i + 1, assigned)
             ELSE IF fd.tag \notin DOMAIN m
             THEN bindFieldsNoStop(m, fields, i + 1, assigned)
             ELSE LET c == Coerce(fd.kind, m[fd.tag])
                  IN  IF c.err
                      THEN LET rest == bindFieldsNoStop(m, fields, i + 1, assigned)
                           IN  [fields |-> rest.fields, err |-> "coerce", failAt |-> i,
                                assigned |-> rest.assigned]
                      ELSE IF c.set
                      THEN bindFieldsNoStop(m, [fields EXCEPT ![i].val = c.val], i + 1,
                                            assigned \cup {i})
                      ELSE bindFieldsNoStop(m, fields, i + 1, assigned)

\* the field loop of ToStruct from field i, with the fields as mutated so
\* far and the set of fields a Set call was made on
RECURSIVE bindFields(_, _, _, _)
bindFields(m, fields, i, assigned) ==
    IF i > Len(fields)
    THEN [fields |-> fields, err |-> "none", failAt |-> 0, assigned |-> assigned]
    ELSE LET fd == fields[i]
         IN  IF ~fd.canSet
             THEN IF fd.tag # << >>
                  THEN [fields |-> fields, err |-> "private", failAt |-> i,
                        assigned |-> assigned]
                  ELSE bindFields(m, fields, i + 1, assigned)
             ELSE IF fd.tag \notin DOMAIN m
             THEN bindFields(m, fields, i + 1, assigned)
             ELSE LET c == Coerce(fd.kind, m[fd.tag])
                  IN  IF c.err
                      THEN [fields |-> fields, err |-> "coerce", failAt |-> i,
                            assigned |-> assigned]
                      ELSE IF c.set
                      THEN bindFields(m, [fields EXCEPT ![i].val = c.val], i + 1,
                                      assigned \cup {i})
                      ELSE bindFields(m, fields, i + 1, assigned)

\* the part of ToStruct after ToMap: the reflect checks and the field loop
bindTarget(m, x) ==
    IF ~x.isPtr
    THEN [x |-> x, err |-> "notptr", failAt |-> 0, assigned |-> {}]
    ELSE IF ~x.isStruct
    THEN [x |-> x, err |-> "notstruct", failAt |-> 0, assigned |-> {}]
    ELSE LET b == bindFields(m, x.fields, 1, {})
         IN  [x |-> [x EXCEPT !.fields = b.fields], err |-> b.err,
              failAt |-> b.failAt, assigned |-> b.assigned]

\* format.go
ToStruct(fm, s, x) ==
    LET r == ToMap(fm, s)
    IN  IF r.err
        THEN [x |-> x, err |-> "mismatch", failAt |-> 0, assigned |-> {}]
        ELSE bindTarget(r.m, x)

\* part_000
ToStructL(fm, s, x) == bindTarget(ToMapL(fm, s), x)

(***************************************************************************)
(* FromStruct (format.go).  A source is [isPtr, isStruct, fields] like a   *)
(* target; reflect.ValueOf(s).Kind() is Struct only for a struct value.    *)
(***************************************************************************)
\* strconv's decimal rendering, as fmt's %v prints an integer
RECURSIVE Itoa(_)
Itoa(n) ==
    IF n < 0 THEN <<"-">> \o Itoa(0 - n)
    ELSE IF n < 10 THEN <<DigitChar(n)>>
    ELSE Itoa(n \div 10) \o <<DigitChar(n % 10)>>

\* fmt.Sprintf("%v", v) for a field of the kind
FormatV(kind, val) ==
    CASE kind = "string" -> val.s
      [] kind = "bool" -> IF val.b THEN <<"t", "r", "u", "e">>
                                   ELSE <<"f", "a", "l", "s", "e">>
      [] kind = "slice" -> <<"[", "]">>
      [] OTHER -> Itoa(val.n)

\* the loop of structField from field i; Interface() panics on an
\* unexported field
RECURSIVE structFieldFrom(_, _, _)
structFieldFrom(fields, field, i) ==
    IF i > Len(fields) THEN [val |-> << >>, err |-> "notfound"]
    ELSE IF fields[i].tag = field
    THEN IF fields[i].canSet
         THEN [val |-> FormatV(fields[i].kind, fields[i].val), err |-> "none"]
         ELSE [val |-> << >>, err |-> "panic"]
    ELSE structFieldFrom(fields, field, i + 1)

structField(s, field) ==
    IF s.isPtr \/ ~s.isStruct
    THEN [val |-> << >>, err |-> "notstruct"]
    ELSE structFieldFrom(s.fields, field, 1)

\* the loop of FromStruct from part i with the tokens emitted so far
RECURSIVE renderFrom(_, _, _, _)
renderFrom(fm, s, i, parts) ==
    IF i > Len(fm.parts) THEN [parts |-> parts, err |-> "none"]
    ELSE IF fm.parts[i].variable # << >>
    THEN LET r == structField(s, fm.parts[i].variable)
         IN  IF r.err # "none"
             THEN [parts |-> << >>, err |-> r.err]
             ELSE renderFrom(fm, s, i + 1, Append(parts, r.val))
    ELSE renderFrom(fm, s, i + 1, Append(parts, fm.parts[i].static))

\* a FromStruct that never writes the leading slash
FromStructNoPrefix(fm, s) ==
    LET r == renderFrom(fm, s, 1, << >>)
    IN  IF r.err # "none"
        THEN [out |-> << >>, err |-> r.err]
        ELSE [out |-> Join(r.parts, "/"), err |-> "none"]

FromStruct(fm, s) ==
    LET r == renderFrom(fm, s, 1, << >>)
        prefix == IF HasPrefix(fm.str, "/") THEN <<"/">> ELSE << >>
    IN  IF r.err # "none"
        THEN [out |-> << >>, err |-> r.err]
        ELSE [out |-> prefix \o Join(r.parts, "/"), err |-> "none"]

(***************************************************************************)
(* Input sets                                                              *)
(***************************************************************************)
StringsOver(A, n) == UNION {[1..k -> A] : k \in 0..n}

TmplChars == {"/", "{", "}", "a"}

\* template and path strings built from tokens, with or without the
\* leading slash
RECURSIVE TokenSeqs(_, _)
TokenSeqs(T, n) ==
    IF n = 0 THEN {}
    ELSE {<<t>> : t \in T} \cup
         {<<t>> \o r : t \in T, r \in TokenSeqs(T, n - 1)}

Slashed(T, n) ==
    {Join(ts, "/") : ts \in TokenSeqs(T, n)} \cup
    {<<"/">> \o Join(ts, "/") : ts \in TokenSeqs(T, n)}

TmplTokens ==
    {<<"x">>, <<"{", "a", "}">>, <<"{", "b", "}">>, <<"{", "}">>, << >>, <<"{", "a">>}

PathTokens == {<<"x">>, <<"y">>, << >>}

\* targets of ToStruct: fields hold a non-zero value before the call
Field(tag, kind, canSet, val) == [tag |-> tag, kind |-> kind, canSet |-> canSet, val |-> val]

TagA == <<"a">>
TagB == <<"b">>
NoTag == << >>
OldString == StrV(<<"o", "l", "d">>)
OldNum == NumV(7)
OldBool == BoolV(FALSE)

FieldChoices ==
    {Field(TagA, "string", TRUE, OldString), Field(TagA, "int8", TRUE, OldNum),
     Field(TagA, "bool", TRUE, OldBool), Field(TagA, "float64", TRUE, OldNum),
     Field(TagA, "slice", TRUE, OldNum), Field(TagA, "string", FALSE, OldString),
     Field(TagB, "uint", TRUE, OldNum), Field(NoTag, "int", TRUE, OldNum),
     Field(NoTag, "string", FALSE, OldString)}

Targets ==
    {[isPtr |-> TRUE, isStruct |-> TRUE, fields |-> fs] :
        fs \in UNION {[1..k -> FieldChoices] : k \in 0..MaxFields}}
    \cup {[isPtr |-> FALSE, isStruct |-> TRUE, fields |-> << >>],
          [isPtr |-> TRUE, isStruct |-> FALSE, fields |-> << >>]}

BindTmpls ==
    {<<"/", "{", "a", "}", "/", "{", "b", "}">>,
     <<"/", "x", "/", "{", "a", "}">>,
     <<"/", "{", "}", "/", "{", "a", "}">>,
     <<"/", "{", "a", "}", "/", "{", "a", "}">>}

BindTokens == {<<"1">>, <<"x">>, <<"2", "0", "0">>}

BindPaths == {<<"/">> \o Join(ts, "/") : ts \in TokenSeqs(BindTokens, MaxBindSegs)}

\* sources of FromStruct
SrcChoices ==
    {Field(TagA, "string", TRUE, StrV(<< >>)), Field(TagA, "string", TRUE, StrV(<<"v">>)),
     Field(TagA, "string", TRUE, StrV(<<"/">>)), Field(TagA, "int", TRUE, NumV(12)),
     Field(TagA, "string", FALSE, StrV(<<"v">>)), Field(TagB, "string", TRUE, StrV(<< >>)),
     Field(TagB, "string", TRUE, StrV(<<"w">>)), Field(TagB, "bool", TRUE, BoolV(TRUE)),
     Field(NoTag, "string", TRUE, StrV(<<"v">>))}

Sources ==
    {[isPtr |-> FALSE, isStruct |-> TRUE, fields |-> fs] :
        fs \in UNION {[1..k -> SrcChoices] : k \in 0..MaxSrcFields}}
    \cup {[isPtr |-> FALSE, isStruct |-> FALSE, fields |-> << >>],
          [isPtr |-> TRUE, isStruct |-> TRUE, fields |-> <<Field(TagA, "string", TRUE, StrV(<<"v">>))>>]}

RenderTokens == {<<"x">>, <<"{", "a", "}">>, <<"{", "b", "}">>}

NoFormat == [str |-> << >>, parts |-> << >>]
NoFormatL == [namedParts |-> << >>]
NoMap == [m |-> EmptyMap, isNil |-> TRUE, err |-> FALSE, want |-> << >>, got |-> << >>]
NoTarget == [isPtr |-> FALSE, isStruct |-> FALSE, fields |-> << >>]
NoBind == [x |-> NoTarget, err |-> "none", failAt |-> 0, assigned |-> {}]
NoRender == [out |-> << >>, err |-> "none"]

InitWith(T) ==
    /\ pc = "init"
    /\ tmpl \in T
    /\ f = NoFormat
    /\ fl = NoFormatL
    /\ path = << >>
    /\ res = NoMap
    /\ resL = EmptyMap
    /\ x0 = NoTarget
    /\ sres = NoBind
    /\ sresL = NoBind
    /\ src = NoTarget
    /\ rres = NoRender

(***************************************************************************)
(* Actions                                                                 *)
(***************************************************************************)
\* f := New(tmpl) in both variants
DoNew ==
    /\ pc = "init"
    /\ f' = New(tmpl)
    /\ fl' = NewL(tmpl)
    /\ pc' = "compiled"
    /\ UNCHANGED <<tmpl, path, res, resL, x0, sres, sresL, src, rres>>

\* m, err := f.ToMap(p)   (format.go)
DoToMap(P) ==
    /\ pc = "compiled"
    /\ \E p \in P :
           /\ path' = p
           /\ res' = ToMap(f, p)
    /\ pc' = "mapped"
    /\ UNCHANGED <<tmpl, f, fl, resL, x0, sres, sresL, src, rres>>

\* m := f.ToMap(path)     (part_000), on the same path
DoToMapL ==
    /\ pc = "mapped"
    /\ resL' = ToMapL(fl, path)
    /\ pc' = "mappedL"
    /\ UNCHANGED <<tmpl, f, fl, path, res, x0, sres, sresL, src, rres>>

\* err := f.ToStruct(p, x)   (format.go); res records the map ToStruct
\* obtains from ToMap
DoToStruct ==
    /\ pc = "compiled"
    /\ \E p \in BindPaths, x \in Targets :
           /\ path' = p
           /\ x0' = x
           /\ res' = ToMap(f, p)
           /\ sres' = ToStruct(f, p, x)
    /\ pc' = "bound"
    /\ UNCHANGED <<tmpl, f, fl, resL, sresL, src, rres>>

\* err := f.ToStruct(path, x)   (part_000), on the same path and an equal
\* target
DoToStructL ==
    /\ pc = "bound"
    /\ resL' = ToMapL(fl, path)
    /\ sresL' = ToStructL(fl, path, x0)
    /\ pc' = "boundL"
    /\ UNCHANGED <<tmpl, f, fl, path, res, x0, sres, src, rres>>

\* out, err := f.FromStruct(s)
DoFromStruct ==
    /\ pc = "compiled"
    /\ \E s \in Sources :
           /\ src' = s
           /\ rres' = FromStruct(f, s)
    /\ pc' = "rendered"
    /\ UNCHANGED <<tmpl, f, fl, path, res, resL, x0, sres, sresL>>

\* m, err := f.ToMap(out) on the string FromStruct returned
DoToMapRendered ==
    /\ pc = "rendered"
    /\ rres.err = "none"
    /\ path' = rres.out
    /\ res' = ToMap(f, rres.out)
    /\ pc' = "reparsed"
    /\ UNCHANGED <<tmpl, f, fl, resL, x0, sres, sresL, src, rres>>

(***************************************************************************)
(* Specifications                                                          *)
(***************************************************************************)
InitNew == InitWith(StringsOver(TmplChars, MaxTmplLen))
NextNew == DoNew
SpecNew == InitNew /\ [][NextNew]_vars

InitMap == InitWith(Slashed(TmplTokens, MaxTmplSegs))
NextMap ==
    \/ DoNew
    \/ DoToMap(Slashed(PathTokens, MaxPathSegs))
    \/ DoToMapL
SpecMap == InitMap /\ [][NextMap]_vars

InitBind == InitWith(BindTmpls)
NextBind ==
    \/ DoNew
    \/ DoToStruct
    \/ DoToStructL
SpecBind == InitBind /\ [][NextBind]_vars

InitRender == InitWith(Slashed(RenderTokens, MaxRenderSegs))
NextRender ==
    \/ DoNew
    \/ DoFromStruct
    \/ DoToMapRendered
SpecRender == InitRender /\ [][NextRender]_vars

(***************************************************************************)
(* Properties of New                                                       *)
(***************************************************************************)
IsBraced(s) == HasPrefix(s, "{") /\ HasSuffix(s, "}")

Unbraced(s) == TrimSuffix(TrimPrefix(s, "{"), "}")

Max(S) == CHOOSE n \in S : \A k \in S : k <= n

\* C7: New yields one segment per slash-delimited token of the template
\* (one leading '/' stripped), in order; a token that begins with '{' and
\* ends with '}' becomes a Variable segment named by the token without its
\* braces, every other token a Static segment holding the raw token (so a
\* trailing '/' yields a final empty Static segment).
C7_NewSegments ==
    pc = "compiled" =>
        LET toks == split(tmpl)
        IN  /\ Len(f.parts) = Len(toks)
            /\ \A i \in 1..Len(toks) :
                   IF IsBraced(toks[i])
                   THEN IsVariable(f.parts[i]) /\ f.parts[i].variable = Unbraced(toks[i])
                   ELSE IsStatic(f.parts[i]) /\ f.parts[i].static = toks[i]

\* C8: in every Format produced by New each Variable segment has a non-empty
\* name and each Static segment's text is the raw token it was compiled from.
C8_SegmentInvariant ==
    pc = "compiled" =>
        /\ \A i \in 1..Len(f.parts) :
               /\ IsVariable(f.parts[i]) => f.parts[i].variable # << >>
               /\ IsStatic(f.parts[i]) => f.parts[i].static = split(tmpl)[i]
        /\ \A k \in 1..Len(fl.namedParts) : fl.namedParts[k].name # << >>

(***************************************************************************)
(* Properties of ToMap                                                     *)
(***************************************************************************)
\* 1-based indices of the variable parts that lie within the path
VarIdx == {i \in 1..Len(f.parts) : IsVariable(f.parts[i]) /\ i <= Len(split(path))}

\* positions in namedParts whose index lies within the path
VarIdxL == {k \in 1..Len(fl.namedParts) : fl.namedParts[k].index < Len(split(path))}

\* C1: when ToMap reports no mismatch, the keys of the returned map are
\* exactly the names of the Variable segments whose index is smaller than
\* the number of path tokens, each bound to the path token at the same
\* index, the highest such index when a name occurs more than once; this
\* holds of the strict and of the lenient ToMap.
C1_MapContents ==
    pc = "mappedL" =>
        LET toks == split(path)
        IN  /\ ~res.err =>
                /\ ~res.isNil
                /\ DOMAIN res.m = {f.parts[i].variable : i \in VarIdx}
                /\ \A n \in DOMAIN res.m :
                       res.m[n] = toks[Max({i \in VarIdx : f.parts[i].variable = n})]
            /\ DOMAIN resL = {fl.namedParts[k].name : k \in VarIdxL}
            /\ \A n \in DOMAIN resL :
                   resL[n] = toks[Max({fl.namedParts[k].index :
                                          k \in {j \in VarIdxL : fl.namedParts[j].name = n}}) + 1]

\* a name bound at two in-range indices to different tokens, with path and
\* template of different lengths
C1_Witness ==
    /\ pc = "mappedL"
    /\ ~res.err
    /\ Len(split(path)) # Len(f.parts)
    /\ \E i, j \in VarIdx :
           /\ i < j
           /\ f.parts[i].variable = f.parts[j].variable
           /\ split(path)[i] # split(path)[j]
    /\ \E i, j \in VarIdxL :
           /\ i < j
           /\ fl.namedParts[i].name = fl.namedParts[j].name
           /\ split(path)[fl.namedParts[i].index + 1] # split(path)[fl.namedParts[j].index + 1]

\* C2: the strict ToMap returns an error, and a nil map, exactly when some
\* index below both the segment count and the token count holds a Static
\* segment whose text differs from the path token; a short path alone is
\* no error.
C2_StrictError ==
    pc \in {"mapped", "mappedL"} =>
        LET toks == split(path)
        IN  /\ res.err <=>
                \E i \in 1..Len(f.parts) :
                    /\ i <= Len(toks)
                    /\ IsStatic(f.parts[i])
                    /\ f.parts[i].static # toks[i]
            /\ res.err <=> res.isNil

\* a path shorter than the template is rejected for a static mismatch at
\* an index it has, after a variable was bound
C2_Witness ==
    /\ pc = "mapped"
    /\ res.err
    /\ res.isNil
    /\ Len(split(path)) < Len(f.parts)
    /\ \E i, j \in 1..Len(split(path)) :
           /\ i < j
           /\ IsVariable(f.parts[i])
           /\ IsStatic(f.parts[j])
           /\ f.parts[j].static # split(path)[j]

\* C10: whenever the strict ToMap returns no error its map equals the map
\* the lenient ToMap returns for the same template and path.
C10_StrictRefinesLenient ==
    (pc = "mappedL" /\ ~res.err) => res.m = resL

(***************************************************************************)
(* Properties of ToStruct.  What a token must become in a field of a       *)
(* given kind is stated here by table, for the tokens the paths are made   *)
(* of, independently of the parsers above.                                 *)
(***************************************************************************)
Tok1 == <<"1">>
Tok200 == <<"2", "0", "0">>
TokX == <<"x">>

Supported(kind) == kind \in {"string", "bool", "int", "int8", "float64", "uint"}

\* the token has no value of the kind
Uncoercible(kind, tok) ==
    \/ kind = "bool" /\ tok # Tok1
    \/ kind = "int8" /\ tok # Tok1
    \/ kind \in {"int", "float64", "uint"} /\ tok = TokX

ExpectVal(kind, tok) ==
    CASE kind = "string" -> StrV(tok)
      [] kind = "bool" -> BoolV(TRUE)
      [] OTHER -> IF tok = Tok1 THEN NumV(1) ELSE NumV(200)

IsRecordPtr(x) == x.isPtr /\ x.isStruct

\* field i is the first one whose mapped value cannot be coerced, and no
\* tagged unexported field stops the loop before it
FirstFailure(m, k) ==
    LET fs == x0.fields
        Fails(i) == fs[i].canSet /\ fs[i].tag \in DOMAIN m
                    /\ Uncoercible(fs[i].kind, m[fs[i].tag])
        Private(i) == ~fs[i].canSet /\ fs[i].tag # NoTag
    IN  Fails(k) /\ \A j \in 1..(k - 1) : ~Fails(j) /\ ~Private(j)

\* r is the outcome of ToStruct on target x0 with map m; kinds is the set
\* of field kinds the clause about earlier fields speaks of
StopsAtFirstFailure(r, m, kinds) ==
    LET fs == x0.fields
    IN  \A k \in 1..Len(fs) :
            FirstFailure(m, k) =>
                /\ r.err = "coerce"
                /\ r.failAt = k
                /\ \A j \in 1..(k - 1) :
                       (fs[j].tag # NoTag /\ fs[j].tag \in DOMAIN m /\ fs[j].kind \in kinds) =>
                           /\ j \in r.assigned
                           /\ Supported(fs[j].kind) =>
                                  r.x.fields[j].val = ExpectVal(fs[j].kind, m[fs[j].tag])
                /\ \A j \in k..Len(fs) :
                       j \notin r.assigned /\ r.x.fields[j].val = fs[j].val

AllKinds == {fd.kind : fd \in FieldChoices}

\* C3 as stated: ToStruct stops at the first field whose mapped value cannot
\* be coerced and returns an error; every tagged, mapped field declared
\* before it holds its newly coerced value, the failing field and every
\* later field hold their pre-call values.  (Read for a call that reaches
\* that field: ToMap succeeds, the target is a pointer to a struct and no
\* tagged unexported field comes first.)
C3_StopsAtFirstFailure ==
    (pc = "boundL" /\ IsRecordPtr(x0)) =>
        /\ ~res.err => StopsAtFirstFailure(sres, res.m, AllKinds)
        /\ StopsAtFirstFailure(sresL, resL, AllKinds)

\* C3 amended: when ToMap succeeds, the target is a pointer to a struct and
\* no tagged unexported field comes first, ToStruct stops at the first field
\* whose mapped value cannot be coerced and returns an error; every tagged,
\* mapped field of a supported type declared before it holds its newly
\* coerced value, the failing field and every later field hold their
\* pre-call values.
C3_StopsAtFirstFailureSupported ==
    (pc = "boundL" /\ IsRecordPtr(x0)) =>
        /\ ~res.err => StopsAtFirstFailure(sres, res.m, {k \in AllKinds : Supported(k)})
        /\ StopsAtFirstFailure(sresL, resL, {k \in AllKinds : Supported(k)})

\* a coercion failure at the second field or later, after a field that was
\* set to a new value, in both variants
C3_Witness ==
    /\ pc = "boundL"
    /\ sres.err = "coerce"
    /\ sresL.err = "coerce"
    /\ sres.failAt > 1
    /\ sres.failAt < Len(x0.fields)
    /\ sresL.failAt = sres.failAt
    /\ \E j \in 1..(sres.failAt - 1) :
           /\ x0.fields[j].tag # NoTag
           /\ sres.x.fields[j].val # x0.fields[j].val
           /\ sresL.x.fields[j].val # x0.fields[j].val

\* r is the outcome of a successful ToStruct on target x0 with map m
KeepsUnmapped(r, m) ==
    r.err = "none" =>
        \A i \in 1..Len(x0.fields) :
            LET fd == x0.fields[i]
            IN  fd.tag # NoTag =>
                    /\ fd.tag \notin DOMAIN m => r.x.fields[i].val = fd.val
                    /\ (fd.tag \in DOMAIN m /\ Supported(fd.kind)) =>
                           r.x.fields[i].val = ExpectVal(fd.kind, m[fd.tag])

\* C4: after a successful ToStruct every field whose tag names a variable
\* with no entry in the map holds its pre-call value, and every tagged field
\* of a supported type whose variable is in the map holds the coerced token.
C4_MissingKeysUntouched ==
    pc = "boundL" =>
        /\ KeepsUnmapped(sres, res.m)
        /\ KeepsUnmapped(sresL, resL)

\* a successful call on a path shorter than the template: one tagged field
\* is set, another tagged field has no entry and keeps its value
C4_Witness ==
    /\ pc = "boundL"
    /\ sres.err = "none"
    /\ sresL.err = "none"
    /\ Len(split(path)) < Len(f.parts)
    /\ \E i, j \in 1..Len(x0.fields) :
           /\ x0.fields[i].tag # NoTag
           /\ x0.fields[i].tag \notin DOMAIN res.m
           /\ x0.fields[i].tag \notin DOMAIN resL
           /\ x0.fields[j].tag \in DOMAIN res.m
           /\ sres.x.fields[j].val # x0.fields[j].val
           /\ sresL.x.fields[j].val # x0.fields[j].val

\* r is the outcome of ToStruct on target x0
UntaggedUntouched(r) ==
    \A i \in 1..Len(x0.fields) :
        x0.fields[i].tag = NoTag =>
            /\ r.x.fields[i].val = x0.fields[i].val
            /\ i \notin r.assigned
            /\ r.failAt # i

\* C9: ToStruct never mutates a field without a path tag, and such a field
\* never causes an error, in either variant.
C9_UntaggedUntouched ==
    pc = "boundL" => UntaggedUntouched(sres) /\ UntaggedUntouched(sresL)

(***************************************************************************)
(* Properties of FromStruct                                                *)
(***************************************************************************)
IsRecord(s) == ~s.isPtr /\ s.isStruct

HasSlash(v) == \E i \in 1..Len(v) : v[i] = "/"

OnlyVariables == \A i \in 1..Len(f.parts) : IsVariable(f.parts[i])

\* the first field of the source tagged n, the one structField reads
FirstTagged(n) ==
    CHOOSE i \in 1..Len(src.fields) :
        src.fields[i].tag = n /\ \A j \in 1..(i - 1) : src.fields[j].tag # n

Text(i) == FormatV(src.fields[i].kind, src.fields[i].val)

\* the source is a record with an exported field for every variable of the
\* template, and no tagged field's text contains a slash
RoundTripInput ==
    /\ OnlyVariables
    /\ IsRecord(src)
    /\ \A p \in 1..Len(f.parts) :
           \E i \in 1..Len(src.fields) :
               src.fields[i].tag = f.parts[p].variable /\ src.fields[FirstTagged(f.parts[p].variable)].canSet
    /\ \A i \in 1..Len(src.fields) : src.fields[i].tag # NoTag => ~HasSlash(Text(i))

RoundTrips ==
    /\ pc = "rendered" => rres.err = "none"
    /\ pc = "reparsed" =>
           /\ ~res.err
           /\ \A p \in 1..Len(f.parts) :
                  /\ f.parts[p].variable \in DOMAIN res.m
                  /\ res.m[f.parts[p].variable] = Text(FirstTagged(f.parts[p].variable))

C6_NonRecordRejected ==
    (pc = "rendered" /\ ~IsRecord(src)) => rres.err = "notstruct"

====
